---------------------------- MODULE Spec2Model ----------------------------
(***************************************************************************)
(* Model of src/index.js: an Express service that issues one-time          *)
(* verification codes over WhatsApp (send-code / verify-code, backed by    *)
(* the in-memory Map verificationCodes and a periodic sweep) and relays    *)
(* WhatsApp messages through the Twilio client.                            *)
(*                                                                         *)
(* Node runs every synchronous stretch of a handler to completion before   *)
(* anything else runs, so each action below is one such stretch: a handler *)
(* from its entry to its response or to its `await`, the continuation      *)
(* after the `await`, or one run of the setInterval callback.              *)
(***************************************************************************)
EXTENDS Integers, Sequences, FiniteSets

(***************************************************************************)
(* Bounds of the model.                                                    *)
(***************************************************************************)
\* Number of times the clock is advanced in a behaviour.
MaxTicks == 2
\* Number of requests in a behaviour that get as far as writing the Map or
\* calling the provider (the other requests are not bounded).
MaxWork == 2
\* Number of parts a recipient string is made of.
MaxParts == 2

(***************************************************************************)
(* Program constants.                                                      *)
(***************************************************************************)
\* Line 55: Math.floor(100000 + Math.random() * 900000), Math.random() in
\* [0, 1), is an integer of MinCode .. MinCode + CodeSpan - 1.
MinCode == 100000
CodeSpan == 900000
\* Line 58: 5 * 60 * 1000 ms.
CodeTTL == 5 * 60 * 1000
\* Line 41: 60 * 1000 ms.
SweepInterval == 60 * 1000

(***************************************************************************)
(* JavaScript values.  A value is a sequence of strings: a type tag        *)
(* followed by its payload (for a string, its characters; for a number,    *)
(* its decimal digits).                                                    *)
(***************************************************************************)
Undefined == <<"undefined">>
Str(chars) == <<"string">> \o chars
Num(digits) == <<"number">> \o digits

TypeOf(v) == Head(v)
Chars(v) == Tail(v)
IsString(v) == TypeOf(v) = "string"

\* ToBoolean, as `!x` applies it: undefined, "" and 0 are falsy.
Truthy(v) ==
    CASE TypeOf(v) = "undefined" -> FALSE
      [] TypeOf(v) = "string" -> Chars(v) # <<>>
      [] TypeOf(v) = "number" -> Chars(v) # <<"0">>

\* Strict equality (===) and SameValueZero of Map keys: same type, same payload.
StrictEquals(a, b) == TypeOf(a) = TypeOf(b) /\ Chars(a) = Chars(b)

DigitChar(d) == <<"0", "1", "2", "3", "4", "5", "6", "7", "8", "9">>[d + 1]

RECURSIVE Digits(_)
Digits(n) == IF n < 10 THEN <<DigitChar(n)>>
             ELSE Append(Digits(n \div 10), DigitChar(n % 10))

\* Number.prototype.toString() of a non-negative integer.
ToString(n) == Str(Digits(n))

\* 'whatsapp:'
Marker == <<"w", "h", "a", "t", "s", "a", "p", "p", ":">>

\* String.prototype.startsWith, on a string value.
StartsWith(v, prefix) ==
    /\ Len(Chars(v)) >= Len(prefix)
    /\ SubSeq(Chars(v), 1, Len(prefix)) = prefix

\* Mutant of FormatTo: the marker is put in front of every recipient.
FormatToAlways(v) == Str(Marker \o Chars(v))

\* x.startsWith('whatsapp:') ? x : `whatsapp:${x}`, on a string value.
FormatTo(v) == IF StartsWith(v, Marker) THEN v ELSE Str(Marker \o Chars(v))

(***************************************************************************)
(* Inputs.                                                                 *)
(***************************************************************************)
Plus1 == Str(<<"+", "1">>)
WaPlus1 == Str(Marker \o <<"+", "1">>)
Seven == Num(<<"7">>)
Zero == Num(<<"0">>)
EmptyString == Str(<<>>)

\* The phoneNumber field of a request body: missing, "", 0, two strings, 7.
PhoneInputs == {Undefined, EmptyString, Zero, Plus1, WaPlus1, Seven}

\* Those that are strings and not empty.
StringPhoneInputs == {v \in PhoneInputs : IsString(v) /\ Truthy(v)}

\* The values that can be keys of the Map (line 59 runs only for truthy ones).
Keys == {v \in PhoneInputs : Truthy(v)}

\* Integers line 55 can produce: the least and the greatest.
CodeNums == {MinCode, MinCode + CodeSpan - 1}

\* The code field of a verify-code request body: missing, "", the number
\* 100000 (not a string), and the strings send-code can have generated.
CodeInputs == {Undefined, EmptyString, Num(Digits(MinCode))}
                  \cup {ToString(n) : n \in CodeNums}

\* The bodies of the verify-code requests: one without phoneNumber, one
\* with an empty code, and every key with every code that is not empty.
VerifyInputs ==
    {<<Undefined, ToString(MinCode)>>, <<Plus1, EmptyString>>}
        \cup {<<p, c>> : p \in Keys, c \in {x \in CodeInputs : Truthy(x)}}

\* Those whose phoneNumber and code are strings that are not empty.
StringVerifyInputs ==
    {in \in VerifyInputs : IsString(in[1]) /\ IsString(in[2]) /\ Truthy(in[2])}

NoEntry == [code |-> Undefined, expiresAt |-> -1]
\* A response: its route, status and body fields, and the request fields
\* it answers.
NoResponse == [route |-> "none", status |-> 0, text |-> "", code |-> Undefined,
               details |-> "", messageSid |-> "", messageStatus |-> "",
               request |-> <<>>]

VARIABLES
    verificationCodes,  \* the Map of line 31: key -> {code, expiresAt} or NoEntry
    now,                \* Date.now()
    ticks,              \* how often the clock was advanced
    pending,            \* the provider calls being awaited, in call order
    lastResponse,       \* the response sent last
    work,               \* how many requests wrote the Map or called the provider
    issued,             \* history: key -> number of entries written for it
    verified,           \* history: key -> number of successful verifications
    lastIssued,         \* history: key -> the code generated last for it, and when
    prevIssued,         \* history: key -> the code written before lastIssued
    consumed,           \* history: key -> a verify succeeded since lastIssued
    raced,              \* history: key -> lastIssued was written while an
                        \* earlier send-code for the key awaited the provider
    swept               \* history: the sweep has run at the present time

vars == <<verificationCodes, now, ticks, pending, lastResponse, work,
          issued, verified, lastIssued, prevIssued, consumed, raced, swept>>

\* The history of the keys (swept is apart: the clock and the sweep set it).
history == <<issued, verified, lastIssued, prevIssued, consumed, raced>>

Response(route, request, status, text) ==
    [NoResponse EXCEPT !.route = route, !.request = request, !.status = status,
                       !.text = text]

\* The sequence s without its i-th element.
Remove(s, i) == SubSeq(s, 1, i - 1) \o SubSeq(s, i + 1, Len(s))

Init ==
    /\ verificationCodes = [k \in Keys |-> NoEntry]
    /\ now = 0
    /\ ticks = 0
    /\ pending = <<>>
    /\ lastResponse = NoResponse
    /\ work = 0
    /\ issued = [k \in Keys |-> 0]
    /\ verified = [k \in Keys |-> 0]
    /\ lastIssued = [k \in Keys |-> [code |-> Undefined, at |-> -1]]
    /\ prevIssued = [k \in Keys |-> Undefined]
    /\ consumed = [k \in Keys |-> FALSE]
    /\ raced = [k \in Keys |-> FALSE]
    /\ swept = FALSE

(***************************************************************************)
(* The clock and the sweep.                                                *)
(***************************************************************************)
\* Steps of the clock: 1 ms, and the lifetime of a code.
Deltas == {1, CodeTTL}

Advance(d) ==
    /\ ticks < MaxTicks
    /\ now' = now + d
    /\ ticks' = ticks + 1
    /\ swept' = FALSE
    /\ UNCHANGED <<verificationCodes, pending, lastResponse, work, history>>

\* Mutant of Expired: no entry ever counts as expired.
ExpiredNever(entry, t) == FALSE

\* Lines 37 and 92: `expiresAt < now`.
Expired(entry, t) == entry.expiresAt < t

\* Time goes on for as long as the Map holds an entry whose expiresAt has not
\* passed (the bound of Advance does not stop the clock for such an entry).
Elapse ==
    /\ \E k \in Keys : /\ verificationCodes[k] # NoEntry
                        /\ verificationCodes[k].expiresAt >= now
    /\ now' = now + CodeTTL
    /\ swept' = FALSE
    /\ UNCHANGED <<verificationCodes, ticks, pending, lastResponse, work, history>>

\* Mutant of MapSet: an entry is written only for a key that has none.
MapSetIfAbsent(map, key, value) ==
    IF map[key] = [code |-> Undefined, expiresAt |-> -1]
    THEN [map EXCEPT ![key] = value] ELSE map

\* Mutant of MapDelete: nothing is deleted.
MapDeleteNothing(map, key) == map

\* Mutant of MapDelete: the Map is cleared.
MapDeleteAll(map, key) == [k \in Keys |-> [code |-> Undefined, expiresAt |-> -1]]

\* Map.prototype.set (line 59) and Map.prototype.delete (lines 38 and 101).
MapSet(map, key, value) == [map EXCEPT ![key] = value]
MapDelete(map, key) == [map EXCEPT ![key] = NoEntry]

\* Mutant of Swept: the sweep leaves the Map as it is.
SweptNothing(map, t) == map

\* Mutant of Swept: the sweep deletes every entry, expired or not.
SweptAll(map, t) == [k \in Keys |-> [code |-> Undefined, expiresAt |-> -1]]

\* Lines 35-40: the Map after the loop of the sweep.
Swept(map, t) ==
    [k \in Keys |-> IF map[k] # NoEntry /\ Expired(map[k], t)
                    THEN MapDelete(map, k)[k] ELSE map[k]]

\* Mutant of Sweep: the callback waits until no provider call is awaited.
SweepWhenIdle ==
    /\ now >= SweepInterval
    /\ pending = <<>>
    /\ verificationCodes' = Swept(verificationCodes, now)
    /\ swept' = TRUE
    /\ UNCHANGED <<now, ticks, pending, lastResponse, work, history>>

\* Lines 34-41: one run of the setInterval callback.  The timer fires no
\* earlier than SweepInterval after the start; how far apart its later runs
\* are is left open (a run that follows another at once changes nothing).
Sweep ==
    /\ now >= SweepInterval
    /\ verificationCodes' = Swept(verificationCodes, now)
    /\ swept' = TRUE
    /\ UNCHANGED <<now, ticks, pending, lastResponse, work, history>>

(***************************************************************************)
(* The messaging provider: client.messages.create.                         *)
(***************************************************************************)
\* What the provider resolves a call with.
Messages == {[sid |-> "SM1", status |-> "queued"], [sid |-> "SM2", status |-> "sent"]}

\* A provider call being awaited, with what the awaiting handler still holds.
Call(route, request, to, body, phoneNumber, code) ==
    [route |-> route, request |-> request, to |-> to, body |-> body,
     phoneNumber |-> phoneNumber, code |-> code]

(***************************************************************************)
(* POST /api/auth/send-code                                                *)
(***************************************************************************)
\* Mutant of NewEntry: the window is the period of the sweep.
NewEntryShort(code, t) == [code |-> code, expiresAt |-> t + SweepInterval]

\* Lines 58-59: the entry { code, expiresAt } written at time t.
NewEntry(code, t) == [code |-> code, expiresAt |-> t + CodeTTL]

\* Lines 58-59: store the code with its expiry, overwriting any entry.
StoreCode(phoneNumber, code) ==
    /\ verificationCodes' = MapSet(verificationCodes, phoneNumber, NewEntry(code, now))
    /\ issued' = [issued EXCEPT ![phoneNumber] = @ + 1]
    /\ lastIssued' = [lastIssued EXCEPT ![phoneNumber] = [code |-> code, at |-> now]]
    /\ prevIssued' = [prevIssued EXCEPT ![phoneNumber] = lastIssued[phoneNumber].code]
    /\ consumed' = [consumed EXCEPT ![phoneNumber] = FALSE]
    /\ raced' = [raced EXCEPT ![phoneNumber] =
                    \E i \in DOMAIN pending : /\ pending[i].route = "send-code"
                                              /\ pending[i].phoneNumber = phoneNumber]
    /\ UNCHANGED verified

\* Lines 46-69 and 78-81: the handler up to its response or its await.
SendCode(phoneNumber) ==
    IF ~Truthy(phoneNumber)
    THEN \* lines 50-52
         /\ lastResponse' =
                Response("send-code", <<phoneNumber>>, 400, "Phone number is required")
         /\ UNCHANGED <<verificationCodes, now, ticks, pending, work, history, swept>>
    ELSE \E n \in CodeNums :
         LET code == ToString(n) IN
         /\ work < MaxWork
         /\ work' = work + 1
         /\ StoreCode(phoneNumber, code)
         /\ IF ~IsString(phoneNumber)
            THEN \* line 62 throws a TypeError (no startsWith), caught at line 78
                 /\ lastResponse' =
                        [Response("send-code", <<phoneNumber>>, 500,
                                  "Failed to send verification code")
                            EXCEPT !.details = "TypeError"]
                 /\ UNCHANGED pending
            ELSE \* lines 62-69: the provider is called and awaited
                 /\ pending' = Append(pending,
                        Call("send-code", <<phoneNumber>>, FormatTo(phoneNumber), code,
                             phoneNumber, code))
                 /\ UNCHANGED lastResponse
         /\ UNCHANGED <<now, ticks, swept>>

\* Mutant of SendCodeResolve: the entry is stored after the await.
SendCodeResolveStoring(i, message) ==
    /\ pending[i].route = "send-code"
    /\ lastResponse' =
           [Response("send-code", pending[i].request, 200, "Verification code sent")
               EXCEPT !.code = pending[i].code, !.messageSid = message.sid]
    /\ pending' = Remove(pending, i)
    /\ verificationCodes' =
           MapSet(verificationCodes, pending[i].phoneNumber, NewEntry(pending[i].code, now))
    /\ UNCHANGED <<now, ticks, work, history, swept>>

\* Lines 72-77: the provider call resolved.
SendCodeResolve(i, message) ==
    /\ pending[i].route = "send-code"
    /\ lastResponse' =
           [Response("send-code", pending[i].request, 200, "Verification code sent")
               EXCEPT !.code = pending[i].code, !.messageSid = message.sid]
    /\ pending' = Remove(pending, i)
    /\ UNCHANGED <<verificationCodes, now, ticks, work, history, swept>>

\* Mutant of SendCodeReject: the rejection is not caught, the handler ends
\* without a response.
SendCodeRejectUnhandled(i) ==
    /\ pending[i].route = "send-code"
    /\ pending' = Remove(pending, i)
    /\ UNCHANGED <<lastResponse, verificationCodes, now, ticks, work, history, swept>>

\* Mutant of SendCodeReject: the entry of the failed send-code is deleted.
SendCodeRejectRollback(i) ==
    /\ pending[i].route = "send-code"
    /\ lastResponse' =
           [Response("send-code", pending[i].request, 500,
                     "Failed to send verification code")
               EXCEPT !.details = "provider error"]
    /\ pending' = Remove(pending, i)
    /\ verificationCodes' = MapDelete(verificationCodes, pending[i].phoneNumber)
    /\ UNCHANGED <<now, ticks, work, history, swept>>

\* Lines 78-81: the provider call rejected.
SendCodeReject(i) ==
    /\ pending[i].route = "send-code"
    /\ lastResponse' =
           [Response("send-code", pending[i].request, 500,
                     "Failed to send verification code")
               EXCEPT !.details = "provider error"]
    /\ pending' = Remove(pending, i)
    /\ UNCHANGED <<verificationCodes, now, ticks, work, history, swept>>

(***************************************************************************)
(* POST /api/auth/verify-code                                              *)
(***************************************************************************)
\* Mutant of VerifyOutcome: expiry is left to the sweep.
VerifyOutcomeNoExpiry(stored, code, t) ==
    IF stored = NoEntry THEN "Invalid or expired code"
    ELSE IF ~StrictEquals(stored.code, code) THEN "Incorrect code"
    ELSE "Code verified"

\* Lines 91-104: the outcome for what the Map holds for the key, and a code.
VerifyOutcome(stored, code, t) ==
    IF stored = NoEntry \/ Expired(stored, t) THEN "Invalid or expired code"
    ELSE IF ~StrictEquals(stored.code, code) THEN "Incorrect code"
    ELSE "Code verified"

\* Mutant of MapAfterVerify: the entry is never deleted.
MapAfterVerifyKept(map, phoneNumber, outcome) == map

\* Mutant of MapAfterVerify: the entry is deleted before the codes are compared.
MapAfterVerifyAnyAttempt(map, phoneNumber, outcome) ==
    IF outcome # "Invalid or expired code" THEN MapDelete(map, phoneNumber) ELSE map

\* Mutant of MapAfterVerify: an entry found expired is deleted too.
MapAfterVerifyDropExpired(map, phoneNumber, outcome) ==
    IF outcome # "Incorrect code" THEN MapDelete(map, phoneNumber) ELSE map

\* Lines 96-101: the Map after the handler: the entry is deleted when the
\* code is the stored one, and only then.
MapAfterVerify(map, phoneNumber, outcome) ==
    IF outcome = "Code verified" THEN MapDelete(map, phoneNumber) ELSE map

\* Lines 85-105.
VerifyCode(phoneNumber, code) ==
    IF ~Truthy(phoneNumber) \/ ~Truthy(code)
    THEN /\ lastResponse' =
                Response("verify-code", <<phoneNumber, code>>, 400,
                         "Phone number and code are required")
         /\ UNCHANGED <<verificationCodes, now, ticks, pending, work, history, swept>>
    ELSE LET outcome == VerifyOutcome(verificationCodes[phoneNumber], code, now) IN
         /\ verificationCodes' = MapAfterVerify(verificationCodes, phoneNumber, outcome)
         /\ IF outcome = "Code verified"
            THEN /\ verified' = [verified EXCEPT ![phoneNumber] = @ + 1]
                 /\ consumed' = [consumed EXCEPT ![phoneNumber] = TRUE]
                 /\ lastResponse' =
                        Response("verify-code", <<phoneNumber, code>>, 200, outcome)
            ELSE /\ lastResponse' =
                        Response("verify-code", <<phoneNumber, code>>, 400, outcome)
                 /\ UNCHANGED <<verified, consumed>>
         /\ UNCHANGED <<now, ticks, pending, work, issued, lastIssued, prevIssued,
                        raced, swept>>

(***************************************************************************)
(* POST /api/whatsapp/send and POST /api/whatsapp/send-message             *)
(***************************************************************************)
Bearer == <<"B", "e", "a", "r", "e", "r">>

\* The authorization header of a request: missing, 'Bearer', 'Bearer ',
\* and 'Bearer ' followed by a token.
AuthHeaders == {Undefined, Str(Bearer), Str(Bearer \o <<" ">>),
                Str(Bearer \o <<" ", "g">>), Str(Bearer \o <<" ", "x">>),
                Str(Bearer \o <<" ", "e">>)}

\* Position of the first ' ' of a sequence of characters, 0 when it has none.
IndexOfSpace(chars) ==
    IF \E i \in 1 .. Len(chars) : chars[i] = " "
    THEN CHOOSE i \in 1 .. Len(chars) :
             chars[i] = " " /\ \A j \in 1 .. i - 1 : chars[j] # " "
    ELSE 0

\* Line 169: authHeader && authHeader.split(' ')[1].
TokenOf(authHeader) ==
    IF ~Truthy(authHeader) THEN authHeader
    ELSE LET i == IndexOfSpace(Chars(authHeader)) IN
         IF i = 0 THEN Undefined
         ELSE LET rest == SubSeq(Chars(authHeader), i + 1, Len(Chars(authHeader)))
                  j == IndexOfSpace(rest)
              IN Str(IF j = 0 THEN rest ELSE SubSeq(rest, 1, j - 1))

\* Line 175: the error jwt.verify hands to its callback, "" when it hands none.
\* Of the tokens of AuthHeaders, 'g' is signed with JWT_SECRET and in date,
\* 'e' is signed with it and expired, 'x' is not a token.
JwtVerify(token) ==
    IF token = Str(<<"g">>) THEN ""
    ELSE IF token = Str(<<"e">>) THEN "TokenExpiredError"
    ELSE "JsonWebTokenError"

\* Mutant of AuthenticateToken: a missing token is answered like a bad one.
AuthenticateTokenForbidden(authHeader) ==
    IF ~Truthy(TokenOf(authHeader)) \/ JwtVerify(TokenOf(authHeader)) # "" THEN 403
    ELSE 0

\* Lines 167-182: the status authenticateToken responds with, 0 when it
\* calls next().
AuthenticateToken(authHeader) ==
    LET token == TokenOf(authHeader) IN
    IF ~Truthy(token) THEN 401
    ELSE IF JwtVerify(token) # "" THEN 403
    ELSE 0

\* authenticateToken on each header of AuthHeaders.
AuthStatus == [h \in AuthHeaders |-> AuthenticateToken(h)]

\* The `to` and `body` fields of a request body.
ToInputs == {Undefined, Plus1, WaPlus1, Seven}
BodyInputs == {Undefined, EmptyString, Str(<<"h", "i">>)}

\* The requests to /api/whatsapp/send: every header with no `to` and no
\* `body`, and the header with the good token with every `to` and `body`.
GoodHeader == Str(Bearer \o <<" ", "g">>)
SendInputs ==
    {<<h, Undefined, Undefined>> : h \in AuthHeaders}
        \cup {<<GoodHeader, t, b>> : t \in ToInputs, b \in BodyInputs}

\* Mutant of Dispatch: `to` and `body` are not checked.
DispatchUnchecked(route, request, to, body) ==
    /\ work < MaxWork
    /\ work' = work + 1
    /\ IF ~IsString(to)
       THEN /\ lastResponse' =
                   [Response(route, request, 500, "Failed to send WhatsApp message")
                       EXCEPT !.details = "TypeError"]
            /\ UNCHANGED pending
       ELSE /\ pending' = Append(pending,
                   Call(route, request, FormatTo(to), body, Undefined, Undefined))
            /\ UNCHANGED lastResponse

\* Lines 111-124 and 131-134 (139-152 and 159-162): the handler of either
\* route up to its response or its await.
Dispatch(route, request, to, body) ==
    IF ~Truthy(to) \/ ~Truthy(body)
    THEN /\ lastResponse' =
                Response(route, request, 400,
                         "Phone number and message body are required")
         /\ UNCHANGED <<pending, work>>
    ELSE /\ work < MaxWork
         /\ work' = work + 1
         /\ IF ~IsString(to)
            THEN \* to.startsWith is not a function: TypeError, caught
                 /\ lastResponse' =
                        [Response(route, request, 500, "Failed to send WhatsApp message")
                            EXCEPT !.details = "TypeError"]
                 /\ UNCHANGED pending
            ELSE /\ pending' = Append(pending,
                        Call(route, request, FormatTo(to), body, Undefined, Undefined))
                 /\ UNCHANGED lastResponse

\* Lines 110-124, with the middleware of lines 167-182 before the handler.
WhatsappSend(authHeader, to, body) ==
    /\ LET status == AuthStatus[authHeader] IN
       IF status = 401
       THEN /\ lastResponse' = Response("whatsapp/send", <<authHeader, to, body>>, 401,
                                        "Access token required")
            /\ UNCHANGED <<pending, work>>
       ELSE IF status = 403
       THEN /\ lastResponse' = Response("whatsapp/send", <<authHeader, to, body>>, 403,
                                        "Invalid or expired token")
            /\ UNCHANGED <<pending, work>>
       ELSE Dispatch("whatsapp/send", <<authHeader, to, body>>, to, body)
    /\ UNCHANGED <<verificationCodes, now, ticks, history, swept>>

\* Lines 138-152.
WhatsappSendMessage(to, body) ==
    /\ Dispatch("whatsapp/send-message", <<to, body>>, to, body)
    /\ UNCHANGED <<verificationCodes, now, ticks, history, swept>>

\* Lines 126-130 and 154-158: the provider call resolved.
DispatchResolve(i, message) ==
    /\ pending[i].route # "send-code"
    /\ lastResponse' =
           [Response(pending[i].route, pending[i].request, 200, "")
               EXCEPT !.messageSid = message.sid, !.messageStatus = message.status]
    /\ pending' = Remove(pending, i)
    /\ UNCHANGED <<verificationCodes, now, ticks, work, history, swept>>

\* Mutant of DispatchReject: a rejected call is made again.
DispatchRejectRetrying(i) ==
    /\ pending[i].route # "send-code"
    /\ pending' = Append(Remove(pending, i), pending[i])
    /\ UNCHANGED <<lastResponse, verificationCodes, now, ticks, work, history, swept>>

\* Lines 131-134 and 159-162: the provider call rejected.
DispatchReject(i) ==
    /\ pending[i].route # "send-code"
    /\ lastResponse' =
           [Response(pending[i].route, pending[i].request, 500,
                     "Failed to send WhatsApp message")
               EXCEPT !.details = "provider error"]
    /\ pending' = Remove(pending, i)
    /\ UNCHANGED <<verificationCodes, now, ticks, work, history, swept>>

\* Lines 186-188 (the timestamp of the body is not part of the model).
Health ==
    /\ lastResponse' = Response("health", <<>>, 200, "ok")
    /\ UNCHANGED <<verificationCodes, now, ticks, pending, work, history, swept>>

Next ==
    \/ \E d \in Deltas : Advance(d)
    \/ Sweep
    \/ \E p \in PhoneInputs : SendCode(p)
    \/ \E i \in DOMAIN pending, m \in Messages : SendCodeResolve(i, m)
    \/ \E i \in DOMAIN pending : SendCodeReject(i)
    \/ \E in \in VerifyInputs : VerifyCode(in[1], in[2])
    \/ \E in \in SendInputs : WhatsappSend(in[1], in[2], in[3])
    \/ \E t \in ToInputs, b \in BodyInputs : WhatsappSendMessage(t, b)
    \/ \E i \in DOMAIN pending, m \in Messages : DispatchResolve(i, m)
    \/ \E i \in DOMAIN pending : DispatchReject(i)
    \/ Health

Spec == Init /\ [][Next]_vars

\* Expiry: send-code and verify-code with phone numbers that are strings,
\* the sweep and the clock, while the provider leaves every call unanswered
\* (what follows the await, lines 72-81, does not touch the Map).
NextExpiry ==
    \/ \E d \in Deltas : Advance(d)
    \/ Sweep
    \/ \E p \in StringPhoneInputs : SendCode(p)
    \/ \E in \in StringVerifyInputs : VerifyCode(in[1], in[2])

SpecExpiry == Init /\ [][NextExpiry]_vars

\* Requests: send-code and verify-code with every phoneNumber of PhoneInputs
\* and the provider answering in any order, within the first millisecond.
NextRequests ==
    \/ \E p \in PhoneInputs : SendCode(p)
    \/ \E i \in DOMAIN pending, m \in Messages : SendCodeResolve(i, m)
    \/ \E i \in DOMAIN pending : SendCodeReject(i)
    \/ \E in \in VerifyInputs : VerifyCode(in[1], in[2])

SpecRequests == Init /\ [][NextRequests]_vars

\* The message routes alone.
NextMessages ==
    \/ \E in \in SendInputs : WhatsappSend(in[1], in[2], in[3])
    \/ \E t \in ToInputs, b \in BodyInputs : WhatsappSendMessage(t, b)
    \/ \E i \in DOMAIN pending, m \in Messages : DispatchResolve(i, m)
    \/ \E i \in DOMAIN pending : DispatchReject(i)
    \/ Health

SpecMessages == Init /\ [][NextMessages]_vars

\* Every endpoint, with the provider answering in any order, within the
\* first millisecond.  Each field of a request is missing, a string or a
\* number; the header is missing, or holds a bad or the good token.
EndpointPhones == {Undefined, Plus1, Seven}
EndpointVerifyInputs ==
    {in \in VerifyInputs : in[1] \in EndpointPhones /\ in[2] # Num(Digits(MinCode))}
EndpointBodies == {Undefined, Str(<<"h", "i">>)}
EndpointSendInputs ==
    {in \in SendInputs :
        /\ in[1] \in {Undefined, Str(Bearer \o <<" ", "x">>), GoodHeader}
        /\ in[2] \in EndpointPhones /\ in[3] \in EndpointBodies}

NextEndpoints ==
    \/ \E p \in EndpointPhones : SendCode(p)
    \/ \E i \in DOMAIN pending, m \in Messages : SendCodeResolve(i, m)
    \/ \E i \in DOMAIN pending : SendCodeReject(i)
    \/ \E in \in EndpointVerifyInputs : VerifyCode(in[1], in[2])
    \/ \E in \in EndpointSendInputs : WhatsappSend(in[1], in[2], in[3])
    \/ \E t \in EndpointPhones, b \in EndpointBodies : WhatsappSendMessage(t, b)
    \/ \E i \in DOMAIN pending, m \in Messages : DispatchResolve(i, m)
    \/ \E i \in DOMAIN pending : DispatchReject(i)
    \/ Health

SpecEndpoints == Init /\ [][NextEndpoints]_vars

\* A stalled provider call: the provider never answers the call made first,
\* and answers the others in any order, while the clock and the sweep run.
StalledPhones == {Plus1}
StalledVerifyInputs == {<<p, ToString(MinCode)>> : p \in StalledPhones}
Hi == Str(<<"h", "i">>)

NextStalled ==
    \/ \E d \in Deltas : Advance(d)
    \/ Sweep
    \/ \E p \in StalledPhones : SendCode(p)
    \/ \E in \in StalledVerifyInputs : VerifyCode(in[1], in[2])
    \/ WhatsappSend(GoodHeader, Plus1, Hi)
    \/ WhatsappSendMessage(Plus1, Hi)
    \/ \E i \in DOMAIN pending \ {1}, m \in Messages : SendCodeResolve(i, m)
    \/ \E i \in DOMAIN pending \ {1} : SendCodeReject(i)
    \/ \E i \in DOMAIN pending \ {1}, m \in Messages : DispatchResolve(i, m)
    \/ \E i \in DOMAIN pending \ {1} : DispatchReject(i)

SpecStalled == Init /\ [][NextStalled]_vars

\* Recipients: the strings made of one to MaxParts parts, a part being the
\* marker, '+1' or 'w' (how the marker begins).
Parts == {Marker, <<"+", "1">>, <<"w">>}

RECURSIVE Concats(_)
Concats(n) ==
    IF n = 0 THEN {<<>>}
    ELSE LET shorter == Concats(n - 1) IN
         shorter \cup {a \o b : a \in shorter, b \in Parts}

Recipients == {Str(chars) : chars \in Concats(MaxParts) \ {<<>>}}

\* The requests that reach the provider: /api/whatsapp/send-message with
\* every recipient, the other two routes with the recipients that are keys
\* of the model; the provider does not answer.
NextRecipients ==
    \/ \E p \in Recipients \cap Keys : SendCode(p)
    \/ \E t \in Recipients \cap Keys : WhatsappSend(GoodHeader, t, Hi)
    \/ \E t \in Recipients : WhatsappSendMessage(t, Hi)

SpecRecipients == Init /\ [][NextRecipients]_vars

\* Expiry over an unbounded time: as SpecExpiry, with the clock running on
\* while an entry waits for its expiry, and the setInterval timer firing
\* again and again (line 41); one phone number.
LivePhones == {Plus1}
LiveVerifyInputs == {<<p, ToString(n)>> : p \in LivePhones, n \in CodeNums}

NextLive ==
    \/ \E d \in Deltas : Advance(d)
    \/ Elapse
    \/ Sweep
    \/ \E p \in LivePhones : SendCode(p)
    \/ \E in \in LiveVerifyInputs : VerifyCode(in[1], in[2])

SpecLive == Init /\ [][NextLive]_vars /\ WF_vars(Elapse) /\ WF_vars(Sweep)

\* The Map and everything that runs beside it: the clock, the sweep,
\* send-code up to its await and verify-code for two phone numbers, the
\* message routes with their provider calls answered, and /health.
StoreVerifyInputs == {<<p, ToString(MinCode)>> : p \in StringPhoneInputs}

NextStore ==
    \/ \E d \in Deltas : Advance(d)
    \/ Sweep
    \/ \E p \in StringPhoneInputs : SendCode(p)
    \/ \E in \in StoreVerifyInputs : VerifyCode(in[1], in[2])
    \/ WhatsappSend(GoodHeader, Plus1, Hi)
    \/ WhatsappSendMessage(Plus1, Hi)
    \/ \E i \in DOMAIN pending : DispatchResolve(i, CHOOSE m \in Messages : m.sid = "SM1")
    \/ \E i \in DOMAIN pending : DispatchReject(i)
    \/ Health

SpecStore == Init /\ [][NextStore]_vars

\* verify-code with every kind of request body, for one phone number, with
\* send-code up to its await, the clock and the sweep.
VerifyBodies ==
    {<<Undefined, ToString(MinCode)>>, <<Plus1, Undefined>>, <<Plus1, EmptyString>>,
     <<EmptyString, ToString(MinCode)>>}
        \cup LiveVerifyInputs

NextVerify ==
    \/ \E d \in Deltas : Advance(d)
    \/ Sweep
    \/ \E p \in LivePhones : SendCode(p)
    \/ \E in \in VerifyBodies : VerifyCode(in[1], in[2])

SpecVerify == Init /\ [][NextVerify]_vars

(***************************************************************************)
(* Properties.                                                             *)
(***************************************************************************)
\* The step is a verify-code(p, x) with both fields given.  (The response
\* of a verify-code step names its request, so p and x are read from it.)
VerifyStep(p, x) ==
    /\ lastResponse'.route = "verify-code"
    /\ lastResponse'.request = <<p, x>>
    /\ Truthy(p) /\ Truthy(x)
    /\ VerifyCode(p, x)

\* The phoneNumber and the code of the request the next response answers.
P == lastResponse'.request[1]
X == lastResponse'.request[2]

\* The entry the last send-code for key p wrote.
IssuedEntry(p) == [code |-> lastIssued[p].code, expiresAt |-> lastIssued[p].at + CodeTTL]

\* A code was issued for p, no verify-code has succeeded for p since, and no
\* more than 5 minutes have passed since that issuance.
Live(p) == issued[p] > 0 /\ ~consumed[p] /\ now <= lastIssued[p].at + CodeTTL

Answer(status, text) == [status |-> status, text |-> text]
Answered == Answer(lastResponse.status, lastResponse.text)
Success == Answer(200, "Code verified")
InvalidOrExpired == Answer(400, "Invalid or expired code")
IncorrectCode == Answer(400, "Incorrect code")

\* C1: once send-code has issued code c for p, a verify-code(p, c) that
\* follows at once succeeds, and every verify-code(p, c) after a successful
\* one, with no send-code for p in between, is answered 'Invalid or expired
\* code': the issued code verifies exactly once.
C1_IssuedCodeVerifiesExactlyOnce ==
    [][VerifyStep(P, X) =>
          /\ (Live(P) /\ X = lastIssued[P].code) => Answered' = Success
          /\ consumed[P] => Answered' = InvalidOrExpired]_vars

\* C1 happens: the code issued for a phone number was verified once, its
\* send-code has been answered, and a second verify-code with the same code
\* was answered 'Invalid or expired code'.
C1_Witness ==
    \E p \in Keys :
        /\ IsString(p) /\ issued[p] = 1 /\ verified[p] = 1 /\ consumed[p]
        /\ pending = <<>>
        /\ lastResponse.route = "verify-code"
        /\ lastResponse.request = <<p, lastIssued[p].code>>
        /\ Answered = InvalidOrExpired

\* C2: verify-code(p, x) with an unexpired entry for p and x other than the
\* stored code is answered 'Incorrect code' and leaves the Map as it is; and
\* whatever wrong attempts were made, verify-code with the issued code still
\* succeeds while the 5 minutes have not passed.
C2_WrongCodeKeepsEntry ==
    [][VerifyStep(P, X) =>
          /\ ( /\ verificationCodes[P] # NoEntry
               /\ verificationCodes[P].expiresAt >= now
               /\ X # verificationCodes[P].code )
                => /\ Answered' = IncorrectCode
                   /\ verificationCodes' = verificationCodes
          /\ (Live(P) /\ X = lastIssued[P].code) => Answered' = Success]_vars

\* C2 happens: a wrong code was answered 'Incorrect code' and the entry of the
\* phone number is still the one issued.
C2_Witness ==
    \E p \in Keys :
        /\ lastResponse.route = "verify-code"
        /\ lastResponse.request[1] = p
        /\ Answered = IncorrectCode
        /\ Live(p)
        /\ lastResponse.request[2] # lastIssued[p].code
        /\ verificationCodes[p] = IssuedEntry(p)

\* C3: verify-code(p, x) is answered 'Invalid or expired code' for every x,
\* the issued code included, when the Map has no entry for p (none issued,
\* consumed or swept) or more than 5 minutes have passed since the last
\* send-code for p.
C3_NoEntryOrExpiredIsInvalid ==
    [][( /\ VerifyStep(P, X)
         /\ \/ verificationCodes[P] = NoEntry
            \/ issued[P] = 0
            \/ consumed[P]
            \/ now > lastIssued[P].at + CodeTTL )
           => Answered' = InvalidOrExpired]_vars

\* C3 happens: the issued code, never used, was refused after its 5 minutes
\* while its entry was still in the Map.
C3_Witness ==
    \E p \in Keys :
        /\ issued[p] > 0 /\ ~consumed[p]
        /\ now > lastIssued[p].at + CodeTTL
        /\ verificationCodes[p] = IssuedEntry(p)
        /\ lastResponse.route = "verify-code"
        /\ lastResponse.request = <<p, lastIssued[p].code>>
        /\ Answered = InvalidOrExpired

\* C4 as stated: after two send-code for p, verify-code with the first code
\* does not succeed.
C4_FirstCodeNeverVerifies ==
    [][(VerifyStep(P, X) /\ issued[P] >= 2 /\ X = prevIssued[P])
           => Answered' # Success]_vars

\* C4 as amended: after two send-code for p the Map holds at most the entry
\* of the second, and verify-code(p, x) succeeds only for x the second code;
\* the first code does not verify unless the second code is equal to it.
C4_OnlySecondCodeVerifies ==
    /\ [](\A p \in Keys :
            (issued[p] >= 2 /\ verificationCodes[p] # NoEntry)
                => verificationCodes[p] = IssuedEntry(p))
    /\ [][(VerifyStep(P, X) /\ issued[P] >= 2 /\ Answered' = Success)
             => X = lastIssued[P].code]_vars

\* C4 happens: after two send-code for p with different codes, the first
\* code was answered 'Incorrect code' and the Map holds the second.
C4_Witness ==
    \E p \in Keys :
        /\ issued[p] = 2
        /\ prevIssued[p] # lastIssued[p].code
        /\ verificationCodes[p] = IssuedEntry(p)
        /\ lastResponse.route = "verify-code"
        /\ lastResponse.request = <<p, prevIssued[p]>>
        /\ Answered = IncorrectCode

\* C5: each run of the sweep removes every entry whose expiresAt is before
\* the time of the run and leaves every other entry as it is, whether or
\* not verify-code was ever called for its phone number.
C5_SweepRemovesExactlyExpired ==
    /\ [](swept => \A k \in Keys : \/ verificationCodes[k] = NoEntry
                                  \/ verificationCodes[k].expiresAt >= now)
    /\ [][Sweep =>
            \A k \in Keys :
                verificationCodes'[k] =
                    IF verificationCodes[k].expiresAt < now
                    THEN NoEntry ELSE verificationCodes[k]]_vars

\* C5 happens: with no verify-code ever successful, a sweep has just removed
\* the expired entry of one phone number and kept the unexpired entry of
\* another.
C5_Witness ==
    /\ swept
    /\ \A k \in Keys : verified[k] = 0
    /\ \E p, q \in Keys :
          /\ issued[p] > 0 /\ now > lastIssued[p].at + CodeTTL
          /\ verificationCodes[p] = NoEntry
          /\ issued[q] > 0 /\ now <= lastIssued[q].at + CodeTTL
          /\ verificationCodes[q] = IssuedEntry(q)

\* The entry the Map would hold for p had the sweep never run.
NeverSwept(p) == IF issued[p] > 0 /\ ~consumed[p] THEN IssuedEntry(p) ELSE NoEntry

\* What verify-code answers for an entry (or NoEntry) and a code x.
ExpectedAnswer(entry, x) ==
    IF entry = NoEntry \/ entry.expiresAt < now THEN InvalidOrExpired
    ELSE IF x # entry.code THEN IncorrectCode
    ELSE Success

\* C6: the answers of verify-code do not depend on the sweep: every
\* verify-code is answered as it would be had the sweep never run, and the
\* sweep never removes an entry verify-code would still accept.
C6_VerifyIndependentOfSweep ==
    /\ [](\A p \in Keys : Live(p) => verificationCodes[p] = IssuedEntry(p))
    /\ [][VerifyStep(P, X) => Answered' = ExpectedAnswer(NeverSwept(P), X)]_vars

\* C6 happens: the sweep has removed the entry of a phone number, which
\* would be in the Map had it not run, and a verify-code with the issued
\* code was then answered as if it were there: 'Invalid or expired code'.
C6_Witness ==
    \E p \in Keys :
        /\ swept
        /\ verificationCodes[p] = NoEntry
        /\ NeverSwept(p) # NoEntry
        /\ lastResponse.route = "verify-code"
        /\ lastResponse.request = <<p, lastIssued[p].code>>
        /\ Answered = ExpectedAnswer(NeverSwept(p), lastIssued[p].code)

\* C7: verify-code looks up, compares and deletes in one step, so of two
\* verify-code with the issued code one succeeds and the entry is gone for
\* the other; whatever the interleaving with send-code and the sweep, no
\* phone number has more successful verifications than issuances.
C7_AtMostOneSuccessPerIssuance ==
    /\ [](\A p \in Keys : /\ verified[p] <= issued[p]
                          /\ consumed[p] => verificationCodes[p] = NoEntry)
    /\ [][(VerifyStep(P, X) /\ Answered' = Success)
             => /\ Live(P)
                /\ verificationCodes'[P] = NoEntry
                /\ verified'[P] = verified[P] + 1]_vars

\* C7 happens: a phone number had two issuances and two successful
\* verifications, and one more verify-code with the same code was refused.
C7_Witness ==
    \E p \in Keys :
        /\ issued[p] = 2 /\ verified[p] = 2
        /\ lastResponse.route = "verify-code"
        /\ lastResponse.request = <<p, lastIssued[p].code>>
        /\ Answered = InvalidOrExpired

\* No send-code for p awaits the provider.
NoPending(p) ==
    \A i \in DOMAIN pending :
        ~(pending[i].route = "send-code" /\ pending[i].phoneNumber = p)

\* C8 as stated: after two concurrent send-code for p have both finished,
\* the code of the first no longer verifies.
C8_FirstIssuanceNeverVerifies ==
    [][(VerifyStep(P, X) /\ raced[P] /\ NoPending(P) /\ X = prevIssued[P])
           => Answered' # Success]_vars

\* C8 as amended: two concurrent send-code for p race as last write wins:
\* until it is consumed or expires the Map holds for p the one entry written
\* by the send-code that ran second, in whatever order the provider calls
\* complete (what follows the await does not write the Map), and a code
\* that verifies is the second one; the first code does not verify unless
\* the second code is equal to it.
C8_LastWriteWins ==
    /\ [](\A p \in Keys :
            (raced[p] /\ Live(p)) => verificationCodes[p] = IssuedEntry(p))
    /\ [][Len(pending') < Len(pending) => verificationCodes' = verificationCodes]_vars
    /\ [][(VerifyStep(P, X) /\ raced[P] /\ Answered' = Success)
             => X = lastIssued[P].code]_vars

\* C8 happens: two send-code for p were in flight together with different
\* codes, both have finished, the one that ran first was answered last, and
\* the Map holds the entry of the second.
C8_Witness ==
    \E p \in Keys :
        /\ raced[p] /\ issued[p] = 2 /\ pending = <<>>
        /\ prevIssued[p] # lastIssued[p].code
        /\ lastResponse.route = "send-code"
        /\ lastResponse.status = 200
        /\ lastResponse.request = <<p>>
        /\ lastResponse.code = prevIssued[p]
        /\ verificationCodes[p] = IssuedEntry(p)

\* The headers without a bearer token, and those with a bad one.
NoTokenHeaders == {Undefined, Str(Bearer), Str(Bearer \o <<" ">>)}
BadTokenHeaders == {Str(Bearer \o <<" ", "x">>), Str(Bearer \o <<" ", "e">>)}
Missing(v) == v \in {Undefined, EmptyString}

\* C9: /api/whatsapp/send answers 401 without a bearer token, else 403 with
\* a malformed or expired token, else 400 when `to` or `body` is missing;
\* with a valid token and `to` and `body` given as non-empty strings the
\* provider is called, and when the call succeeds the answer is 200 with the
\* identifier and the status of the provider's message.
C9_SendChecksInOrder ==
    /\ [](lastResponse.route = "whatsapp/send" =>
            LET h == lastResponse.request[1]
                to == lastResponse.request[2]
                body == lastResponse.request[3]
            IN /\ h \in NoTokenHeaders => lastResponse.status = 401
               /\ h \in BadTokenHeaders => lastResponse.status = 403
               /\ (h = GoodHeader /\ (Missing(to) \/ Missing(body)))
                     => lastResponse.status = 400
               /\ lastResponse.status = 200
                     => h = GoodHeader /\ ~Missing(to) /\ ~Missing(body))
    /\ [][\A in \in SendInputs :
            ( /\ in[1] = GoodHeader /\ IsString(in[2]) /\ IsString(in[3])
              /\ ~Missing(in[2]) /\ ~Missing(in[3])
              /\ WhatsappSend(in[1], in[2], in[3]) )
                => /\ Len(pending') = Len(pending) + 1
                   /\ pending'[Len(pending')].route = "whatsapp/send"]_vars
    /\ [][\A i \in DOMAIN pending, m \in Messages :
            (DispatchResolve(i, m) /\ pending[i].route = "whatsapp/send")
                => /\ lastResponse'.status = 200
                   /\ lastResponse'.messageSid = m.sid
                   /\ lastResponse'.messageStatus = m.status]_vars

\* C9 happens: a request with a valid token, `to` and `body` was answered
\* 200 with the provider's identifier and status.
C9_Witness ==
    /\ lastResponse.route = "whatsapp/send"
    /\ lastResponse.request = <<GoodHeader, WaPlus1, Str(<<"h", "i">>)>>
    /\ lastResponse.status = 200
    /\ lastResponse.messageSid = "SM2"
    /\ lastResponse.messageStatus = "sent"

\* C10: a send-code whose phoneNumber is missing, empty or not a string is
\* answered 400, writes no entry and calls the provider for nothing.
C10_NonStringPhoneRejected ==
    /\ (lastResponse.route = "send-code"
           /\ (~IsString(lastResponse.request[1]) \/ Missing(lastResponse.request[1])))
          => lastResponse.status = 400
    /\ \A k \in Keys :
          ~IsString(k) =>
              /\ issued[k] = 0
              /\ verificationCodes[k] = NoEntry
              /\ NoPending(k)

\* The step sends the response to the request, and suspends no handler.
Answers(route, request) ==
    /\ lastResponse'.route = route
    /\ lastResponse'.request = request
    /\ lastResponse'.status # 0
    /\ pending' = pending

\* The step sends no response and leaves the handler of the request awaiting
\* one provider call.
Suspends(route, request) ==
    /\ lastResponse' = lastResponse
    /\ Len(pending') = Len(pending) + 1
    /\ SubSeq(pending', 1, Len(pending)) = pending
    /\ pending'[Len(pending')].route = route
    /\ pending'[Len(pending')].request = request

\* The step ends the handler awaiting the i-th call with the response to its
\* request, and leaves the other awaiting handlers as they are.
Completes(i) ==
    /\ pending' = Remove(pending, i)
    /\ lastResponse'.route = pending[i].route
    /\ lastResponse'.request = pending[i].request
    /\ lastResponse'.status \in {200, 500}

\* The i-th call was rejected and the step answers it 500 with the detail of
\* the provider's error.
SurfacesError(i) ==
    /\ Completes(i)
    /\ lastResponse'.status = 500
    /\ lastResponse'.details = "provider error"

\* The status of a response goes with what it reports.
StatusFits(r) ==
    /\ r.route # "none" => r.status \in {200, 400, 401, 403, 500}
    /\ r.status \in {401, 403} => r.route = "whatsapp/send"
    /\ r.text \in {"Phone number is required", "Phone number and code are required",
                   "Phone number and message body are required",
                   "Invalid or expired code", "Incorrect code"} => r.status = 400
    /\ r.text = "Access token required" <=> r.status = 401
    /\ r.text = "Invalid or expired token" <=> r.status = 403
    /\ r.status = 500 <=> r.details \in {"provider error", "TypeError"}
    /\ r.status \in {400, 401, 403, 500} => r.text # ""
    /\ r.route = "send-code" /\ Missing(r.request[1]) => r.status = 400
    /\ r.route = "verify-code" /\ (Missing(r.request[1]) \/ Missing(r.request[2]))
           => r.status = 400
    /\ r.route = "verify-code" => r.status \in {200, 400}
    /\ r.route = "whatsapp/send-message"
           /\ (Missing(r.request[1]) \/ Missing(r.request[2])) => r.status = 400
    /\ r.route = "health" => r.status = 200

C12_NoRetries ==
    /\ [][Len(pending') > Len(pending) =>
            /\ Len(pending') = Len(pending) + 1
            /\ SubSeq(pending', 1, Len(pending)) = pending
            /\ work' = work + 1]_vars
    /\ [][\A i \in DOMAIN pending :
            (SendCodeReject(i) \/ DispatchReject(i)) =>
                /\ work' = work
                /\ Len(pending') = Len(pending) - 1
                /\ \A j \in DOMAIN pending' : pending'[j] \in {pending[k] : k \in DOMAIN pending}
                /\ lastResponse'.status = 500
                /\ lastResponse'.details = "provider error"
                /\ lastResponse'.request = pending[i].request]_vars
    /\ [][work' = work => Len(pending') <= Len(pending)]_vars

\* C12 happens: one request to /api/whatsapp/send-message called the
\* provider, the call was rejected, the request was answered 500 and no call
\* is being awaited.
C12_Witness ==
    /\ work = 1
    /\ pending = <<>>
    /\ lastResponse.route = "whatsapp/send-message"
    /\ lastResponse.request = <<Plus1, Str(<<"h", "i">>)>>
    /\ lastResponse.status = 500
    /\ lastResponse.details = "provider error"

\* C13: while a provider call stays unanswered, the sweep can run when its
\* time has come and leaves no expired entry behind, verify-code, send-code
\* and the message routes can take requests in, and the calls made after the
\* stalled one can end, each with the response to its own request; no step
\* of another request ends or changes the stalled call.
C13_StalledCallBlocksOnlyItself ==
    /\ [](pending # <<>> =>
            /\ now >= SweepInterval => ENABLED Sweep
            /\ swept => \A k \in Keys : verificationCodes[k] = NoEntry
                                        \/ ~Expired(verificationCodes[k], now)
            /\ \A in \in StalledVerifyInputs : ENABLED VerifyCode(in[1], in[2])
            /\ work < MaxWork =>
                  /\ \A p \in StalledPhones : ENABLED SendCode(p)
                  /\ ENABLED WhatsappSend(GoodHeader, Plus1, Hi)
                  /\ ENABLED WhatsappSendMessage(Plus1, Hi)
            /\ \A i \in DOMAIN pending \ {1} :
                  IF pending[i].route = "send-code"
                  THEN ENABLED SendCodeReject(i)
                       /\ \A m \in Messages : ENABLED SendCodeResolve(i, m)
                  ELSE ENABLED DispatchReject(i)
                       /\ \A m \in Messages : ENABLED DispatchResolve(i, m))
    /\ [][pending # <<>> => pending' # <<>> /\ pending'[1] = pending[1]]_vars
    /\ [][\A i \in DOMAIN pending \ {1} :
            (\/ SendCodeReject(i) \/ DispatchReject(i)
             \/ \E m \in Messages : SendCodeResolve(i, m) \/ DispatchResolve(i, m))
                => Completes(i)]_vars

\* C13 happens: the call of a send-code made at the start is still
\* unanswered after more than 5 minutes, the sweep has removed the entry of
\* that send-code, and a later request to /api/whatsapp/send-message has been
\* answered 200.
C13_Witness ==
    /\ Len(pending) = 1
    /\ pending[1].route = "send-code"
    /\ pending[1].phoneNumber = Plus1
    /\ lastIssued[Plus1].at = 0
    /\ now > CodeTTL
    /\ swept
    /\ ~consumed[Plus1]
    /\ verificationCodes[Plus1] = NoEntry
    /\ lastResponse.route = "whatsapp/send-message"
    /\ lastResponse.status = 200

\* The recipient a provider call was asked for: the phoneNumber or the `to`
\* of its request.
RecipientOf(call) ==
    CASE call.route = "send-code" -> call.request[1]
      [] call.route = "whatsapp/send" -> call.request[2]
      [] call.route = "whatsapp/send-message" -> call.request[1]

\* The string without its first Len(prefix) characters.
Without(v, prefix) == Str(SubSeq(Chars(v), Len(prefix) + 1, Len(Chars(v))))

\* C14 as stated: the address handed to the provider starts with the
\* marker, once.
C14_ExactlyOneMarker ==
    \A i \in DOMAIN pending :
        /\ StartsWith(pending[i].to, Marker)
        /\ ~StartsWith(Without(pending[i].to, Marker), Marker)

\* C14: the address handed to the provider is the recipient itself when the
\* recipient starts with the marker and the marker followed by the recipient
\* when it does not; it starts with the marker, and making an address of it
\* again gives the same address.
C14_NormalizeIdempotent ==
    \A i \in DOMAIN pending :
        LET to == RecipientOf(pending[i])
            address == pending[i].to
        IN /\ StartsWith(address, Marker)
           /\ StartsWith(to, Marker) => address = to
           /\ ~StartsWith(to, Marker) => address = Str(Marker \o Chars(to))
           /\ FormatTo(address) = address
           /\ FormatTo(FormatTo(to)) = FormatTo(to)

\* C14 happens: a request for '+1' and then a request for the address made
\* of it, 'whatsapp:+1', called the provider with the same address.
C14_Witness ==
    /\ Len(pending) = 2
    /\ RecipientOf(pending[1]) = Plus1
    /\ RecipientOf(pending[2]) = pending[1].to
    /\ pending[2].to = pending[1].to
    /\ pending[1].to = WaPlus1

\* C15: an entry written by send-code does not stay in the Map for ever:
\* unless a later send-code for the same phone number writes a new one, it
\* is removed, by a verify-code that succeeds or by the sweep after its
\* expiresAt; and it is removed in no other way.
C15_EntryEventuallyRemoved ==
    /\ \A k \in LivePhones : \A n \in 1 .. MaxWork :
          (verificationCodes[k] # NoEntry /\ issued[k] = n)
              ~> (verificationCodes[k] = NoEntry \/ issued[k] > n)
    /\ [][\A k \in Keys :
            (verificationCodes[k] # NoEntry /\ verificationCodes'[k] = NoEntry)
                => \/ verified'[k] = verified[k] + 1
                   \/ swept' /\ Expired(verificationCodes[k], now)]_vars

\* C15 happens: an entry that no verify-code consumed was removed by the
\* sweep, after the clock had used up its bounded steps and run on.
C15_Witness ==
    \E k \in Keys :
        /\ issued[k] > 0 /\ verified[k] = 0
        /\ lastIssued[k].at > 0
        /\ ticks = MaxTicks
        /\ now > lastIssued[k].at + CodeTTL
        /\ swept
        /\ verificationCodes[k] = NoEntry

\* C16: the entry the Map holds for a key is the one its last send-code
\* wrote: the code generated then, and as expiresAt the time of that
\* send-code plus 5 minutes; an entry that stays in the Map changes only in
\* a step that issues a new code for its key.
C16_ExpiryFixedAtIssuance ==
    /\ [](\A k \in Keys :
            verificationCodes[k] # NoEntry =>
                /\ issued[k] > 0
                /\ verificationCodes[k].expiresAt = lastIssued[k].at + CodeTTL
                /\ verificationCodes[k].code = lastIssued[k].code)
    /\ [][\A k \in Keys :
            ( /\ verificationCodes[k] # NoEntry
              /\ verificationCodes'[k] # NoEntry
              /\ verificationCodes'[k] # verificationCodes[k] )
                => /\ issued'[k] = issued[k] + 1
                   /\ verificationCodes'[k].expiresAt = now + CodeTTL]_vars
    /\ [][\A k \in Keys :
            issued'[k] = issued[k] =>
                \/ verificationCodes'[k] = verificationCodes[k]
                \/ verificationCodes'[k] = NoEntry]_vars

\* C16 happens: a code was issued after the start, 5 minutes passed, the
\* sweep ran and a verify-code with a wrong code was refused, and the entry
\* still has the expiresAt of its issuance.
C16_Witness ==
    \E k \in Keys :
        /\ lastIssued[k].at > 0
        /\ now = lastIssued[k].at + CodeTTL
        /\ swept
        /\ lastResponse.route = "verify-code"
        /\ lastResponse.request[1] = k
        /\ Answered = IncorrectCode
        /\ verificationCodes[k].expiresAt = lastIssued[k].at + CodeTTL

\* C17: a step that changes the Map is a send-code or a verify-code, which
\* changes the entry of its own phoneNumber and no other, or the sweep,
\* which removes entries that have expired and changes no other; the
\* message routes, their continuations and /health leave the Map as it is.
C17_StoreChangedOnlyForTargetKey ==
    [][verificationCodes' # verificationCodes =>
          /\ \A p \in StringPhoneInputs :
                SendCode(p) => \A q \in Keys \ {p} :
                                   verificationCodes'[q] = verificationCodes[q]
          /\ \A p \in StringPhoneInputs :
                VerifyCode(p, ToString(MinCode)) =>
                    \A q \in Keys \ {p} : verificationCodes'[q] = verificationCodes[q]
          /\ Sweep => \A k \in Keys :
                         verificationCodes'[k] # verificationCodes[k] =>
                             /\ verificationCodes[k].expiresAt < now
                             /\ verificationCodes'[k] = NoEntry
          /\ ~ \/ WhatsappSend(GoodHeader, Plus1, Hi)
               \/ WhatsappSendMessage(Plus1, Hi)
               \/ Health
               \/ \E i \in DOMAIN pending :
                     DispatchReject(i) \/ \E m \in Messages : DispatchResolve(i, m)
          /\ \/ \E p \in StringPhoneInputs : SendCode(p) \/ VerifyCode(p, ToString(MinCode))
             \/ Sweep]_vars

\* C17 happens: two phone numbers had a code each, a verify-code consumed
\* the entry of one, and the entry of the other is still the one issued.
C17_Witness ==
    /\ issued[Plus1] = 1 /\ issued[WaPlus1] = 1
    /\ consumed[Plus1]
    /\ verificationCodes[Plus1] = NoEntry
    /\ lastResponse.route = "verify-code"
    /\ lastResponse.request[1] = Plus1
    /\ Answered = Success
    /\ verificationCodes[WaPlus1] = IssuedEntry(WaPlus1)

\* The provider call of the send-code that issued the present code of p is
\* still awaited.
AwaitingLast(p) ==
    \E i \in DOMAIN pending :
        /\ pending[i].route = "send-code"
        /\ pending[i].phoneNumber = p
        /\ pending[i].code = lastIssued[p].code

\* The response sent last is the 500 of a send-code for p.
FailedLast(p) ==
    /\ lastResponse.route = "send-code"
    /\ lastResponse.request = <<p>>
    /\ lastResponse.status = 500

\* C18 as stated: while the call of the last send-code for p is awaited, or
\* right after a send-code for p was answered 500, the code issued before
\* the present one does not verify.
C18_PreviousCodeInvalidated ==
    [][( /\ VerifyStep(P, X)
         /\ AwaitingLast(P) \/ FailedLast(P)
         /\ issued[P] >= 2 /\ X = prevIssued[P] )
           => Answered' # Success]_vars

\* C18: send-code writes the entry in the step that calls the provider, and
\* the step that answers a rejected call 500 leaves the Map as it is: while
\* no verify-code has consumed it the Map holds the entry of the last
\* send-code, whatever became of its call, and while the call is awaited or
\* right after the 500 a verify-code succeeds with the new code and with no
\* other.
C18_EntryWrittenBeforeAwait ==
    /\ [](\A p \in Keys :
            (issued[p] > 0 /\ ~consumed[p]) => verificationCodes[p] = IssuedEntry(p))
    /\ [][\A i \in DOMAIN pending :
            SendCodeReject(i) => /\ verificationCodes' = verificationCodes
                                 /\ lastResponse'.status = 500]_vars
    /\ [][Len(pending') > Len(pending) =>
            LET call == pending'[Len(pending')] IN
            /\ verificationCodes'[call.phoneNumber] = NewEntry(call.code, now)
            /\ lastIssued'[call.phoneNumber].code = call.code
            /\ issued'[call.phoneNumber] = issued[call.phoneNumber] + 1]_vars
    /\ [][(VerifyStep(P, X) /\ (AwaitingLast(P) \/ FailedLast(P)) /\ ~consumed[P]) =>
            /\ X = lastIssued[P].code => Answered' = Success
            /\ Answered' = Success => X = lastIssued[P].code]_vars

\* C18 happens: the one send-code for a phone number was answered 500 with
\* the provider's error, and the Map holds its entry, unconsumed.
C18_Witness ==
    \E p \in Keys :
        /\ issued[p] = 1 /\ work = 1 /\ pending = <<>>
        /\ FailedLast(p)
        /\ lastResponse.details = "provider error"
        /\ Live(p)
        /\ verificationCodes[p] = IssuedEntry(p)

\* C19: a step that sends a 400, 401 or 403 calls the provider for nothing,
\* and a step that calls the provider sends no response; every provider
\* call was asked for by a request whose fields are all non-empty, and on
\* /api/whatsapp/send by one whose token authenticateToken accepted.
C19_NoCallForRejectedRequest ==
    /\ [][(lastResponse' # lastResponse /\ lastResponse'.status \in {400, 401, 403})
             => pending' = pending /\ work' = work]_vars
    /\ [][Len(pending') > Len(pending) => lastResponse' = lastResponse]_vars
    /\ [](\A i \in DOMAIN pending :
            LET call == pending[i] IN
            /\ \A j \in DOMAIN call.request : ~Missing(call.request[j])
            /\ IsString(RecipientOf(call))
            /\ call.route = "whatsapp/send" =>
                  /\ Truthy(TokenOf(call.request[1]))
                  /\ JwtVerify(TokenOf(call.request[1])) = ""
                  /\ ~Missing(call.body))

\* C19 happens: a request to /api/whatsapp/send with a valid token and no
\* body was answered 400, and the provider has not been called.
C19_Witness ==
    /\ lastResponse.route = "whatsapp/send"
    /\ lastResponse.request = <<GoodHeader, Plus1, Undefined>>
    /\ lastResponse.status = 400
    /\ pending = <<>>
    /\ work = 0

\* C20: a verify-code step changes the Map only when it answers 'Code
\* verified', and then only by deleting the entry of its phoneNumber; when
\* a field is missing it answers 400 and the Map stays as it is; when the
\* entry of its phoneNumber has expired it answers 'Invalid or expired
\* code' and the entry stays in the Map.
C20_VerifyChangesStoreOnlyOnSuccess ==
    [][(lastResponse'.route = "verify-code" /\ VerifyCode(P, X)) =>
          /\ Answered' # Success => verificationCodes' = verificationCodes
          /\ Answered' = Success =>
                /\ verificationCodes'[P] = NoEntry
                /\ \A q \in Keys \ {P} : verificationCodes'[q] = verificationCodes[q]
          /\ (Missing(P) \/ Missing(X)) =>
                /\ lastResponse'.status = 400
                /\ lastResponse'.text = "Phone number and code are required"
                /\ verificationCodes' = verificationCodes
          /\ ( /\ ~Missing(P) /\ ~Missing(X)
               /\ verificationCodes[P] # NoEntry
               /\ verificationCodes[P].expiresAt < now ) =>
                /\ Answered' = InvalidOrExpired
                /\ verificationCodes'[P] = verificationCodes[P]]_vars

\* C20 happens: a verify-code with the stored code was refused because the
\* entry had expired, no sweep has run since, and the expired entry is still
\* in the Map.
C20_Witness ==
    \E p \in Keys :
        /\ lastResponse.route = "verify-code"
        /\ lastResponse.request = <<p, verificationCodes[p].code>>
        /\ Answered = InvalidOrExpired
        /\ ~swept
        /\ verificationCodes[p] # NoEntry
        /\ verificationCodes[p].expiresAt < now

=============================================================================
